---- MODULE Spec2Model ----
(***************************************************************************)
(* Agent Connection engine of gmgui: the ACPConnection class of            *)
(* acp-launcher.js (line framer, request/response correlator, inbound call *)
(* dispatcher, timers) and the connection pool of server.js.               *)
(*                                                                         *)
(* Encoding conventions.  JavaScript `undefined`/absent is 0 for an id,    *)
(* "" for a string field and NoError for an error object, so that every    *)
(* field keeps one type.  Times are in milliseconds; the clock advances in *)
(* steps of Quantum.                                                       *)
(***************************************************************************)
EXTENDS Integers, Sequences, FiniteSets, TLC

----------------------------------------------------------------------------
(* Bounds of the model *)

MaxConns == 2
MaxCalls == 2
MaxStdin == 2
MaxAgentId == 3
MaxChunkLen == 4
MaxStream == 6
MaxTasks == 2

Conns == 1..MaxConns

----------------------------------------------------------------------------
(* Program constants *)

DefaultTimeout == 60000
NewSessionTimeout == 120000
PromptTimeout == 300000
ResetTimeout == 300000
TerminateWait == 5000
FsErrorCode == -32000

Quantum == DefaultTimeout

NoId == 0

HostMethods ==
    {"initialize", "session/new", "session/set_mode", "session/skill_inject",
     "session/prompt"}

TimeoutOf(method) ==
    CASE method = "session/new" -> NewSessionTimeout
      [] method = "session/prompt" -> PromptTimeout
      [] OTHER -> DefaultTimeout

----------------------------------------------------------------------------
(* Values on the wire and in promises *)

NoError == [present |-> FALSE, code |-> 0, message |-> ""]

ErrorObject(code, message) == [present |-> TRUE, code |-> code, message |-> message]

Frame(method, id, params, result, error) ==
    [method |-> method, id |-> id, params |-> params, result |-> result,
     error |-> error]

Response(id, result) == Frame("", id, "", result, NoError)

ErrorResponse(id, code, message) == Frame("", id, "", "", ErrorObject(code, message))

Call(method, id, params) == Frame(method, id, params, "", NoError)

(* The JSON string "" as the value of a field; a field that is absent has *)
(* the value "" in a frame of the model                                   *)
EmptyString == "''"

(* if (value): neither undefined nor the empty string *)
Truthy(value) == value \notin {"", EmptyString}

(* The Error objects the callers are rejected with: the text of the message  *)
(* and the pieces interpolated into it.                                      *)
Err(text, method, ms, code) == [text |-> text, method |-> method, ms |-> ms, code |-> code]

NoErr == Err("", "", 0, 0)

ErrExited == Err("ACP process exited", "", 0, 0)

ErrNotConnected == Err("ACP not connected", "", 0, 0)

ErrTimeout(method, ms) == Err("timeout", method, ms, 0)

ErrPromptTimeout == Err("timeout", "session/prompt", 0, 0)

ErrRemote(e) ==
    IF e.message # "" THEN Err(e.message, "", 0, 0)
    ELSE Err("JSON.stringify(error)", "", 0, e.code)

----------------------------------------------------------------------------
(* State *)

VARIABLES
    child,            \* this.child: "null" or "child"
    buffer,           \* this.buffer: characters of the trailing partial line
    nextRequestId,    \* this.nextRequestId
    pendingRequests,  \* this.pendingRequests: id -> [method, call, timeoutId]
    sessionId,        \* this.sessionId
    onUpdate,         \* this.onUpdate: 0 (null) or the owner of the callback
    timers,           \* armed setTimeout handles created by the connection
    calls,            \* the promises returned by sendRequest, in call order
    proc,             \* the spawned subprocess
    stdin,            \* frames written to the subprocess's stdin
    stream,           \* observer: all characters delivered so far
    decoded,          \* observer: documents handed to handleMessage
    torn,             \* observer: a chunk has ended inside a document
    delivered,        \* observer: the invocations of the onUpdate callback
    acpPool,          \* server.js acpPool: agentId -> connection, NoConn if absent
    tasks,            \* server.js: the processMessage() invocations
    shutdown          \* server.js: the SIGTERM handler

connVars ==
    <<child, buffer, nextRequestId, pendingRequests, sessionId, onUpdate,
      timers, calls, proc, stdin, stream, decoded, torn, delivered>>

poolVars == <<acpPool, tasks, shutdown>>

vars == <<connVars, poolVars>>

Tasks == 1..MaxTasks

AgentIds == {"claude-code", "opencode"}

(* acpPool.get(agentId) === undefined; a task that holds no connection *)
NoConn == 0

(* A processMessage() that has not been invoked yet *)
NoTask ==
    [pc |-> "idle", agentId |-> "", cwd |-> "", conn |-> NoConn, call |-> 0,
     status |-> <<>>,       \* the values written to the status of the session record
     messages |-> 0,        \* the assistant messages recorded for the conversation
     returned |-> NoConn,   \* observer: the connection getACP() returned
     ready |-> FALSE,       \* observer: that connection was Ready when returned
     afterFailure |-> FALSE]  \* observer: invoked after a prompt failed for agentId

(* The SIGTERM handler before the signal *)
NoShutdown ==
    [pc |-> "idle",
     visited |-> {},     \* the entries the iterator of acpPool.values() has passed
     conn |-> NoConn,    \* the connection whose terminate() is awaited
     dropped |-> {}]     \* observer: connections acpPool.clear() removed with child set

(* The function f with every value computed, none left to be computed *)
(* when it is applied                                                  *)
Enumerated(f) == <<>> @@ f

NoProc == [status |-> "none", killed |-> FALSE, stdinEnded |-> FALSE]

(* new ACPConnection() *)
NewConnection ==
    [child |-> "null", buffer |-> <<>>, nextRequestId |-> 1,
     pendingRequests |-> <<>>, sessionId |-> "", onUpdate |-> 0,
     timers |-> <<>>, calls |-> <<>>, proc |-> NoProc, stdin |-> <<>>,
     stream |-> <<>>, decoded |-> <<>>, torn |-> FALSE, delivered |-> <<>>]

(* The connection c with everything its handlers can touch, as one record *)
World(c) ==
    [child |-> child[c], buffer |-> buffer[c], nextRequestId |-> nextRequestId[c],
     pendingRequests |-> pendingRequests[c], sessionId |-> sessionId[c],
     onUpdate |-> onUpdate[c], timers |-> timers[c], calls |-> calls[c],
     proc |-> proc[c], stdin |-> stdin[c],
     stream |-> stream[c], decoded |-> decoded[c], torn |-> torn[c],
     delivered |-> delivered[c]]

(* The observers quiet and still are kept for a pending request and for one *)
(* that timed out, and dropped otherwise.                                  *)
Forget(cs) ==
    [k \in DOMAIN cs |->
       IF cs[k].state = "pending" \/ cs[k].error.text = "timeout" THEN cs[k]
       ELSE [cs[k] EXCEPT !.quiet = 0, !.still = 0]]

CommitConn(c, w) ==
    /\ child' = [child EXCEPT ![c] = w.child]
    /\ buffer' = [buffer EXCEPT ![c] = w.buffer]
    /\ nextRequestId' = [nextRequestId EXCEPT ![c] = w.nextRequestId]
    /\ pendingRequests' = [pendingRequests EXCEPT ![c] = w.pendingRequests]
    /\ sessionId' = [sessionId EXCEPT ![c] = w.sessionId]
    /\ onUpdate' = [onUpdate EXCEPT ![c] = w.onUpdate]
    /\ timers' = [timers EXCEPT ![c] = w.timers]
    /\ calls' = [calls EXCEPT ![c] = Forget(w.calls)]
    /\ proc' = [proc EXCEPT ![c] = w.proc]
    /\ stdin' = [stdin EXCEPT ![c] = w.stdin]
    /\ stream' = [stream EXCEPT ![c] = w.stream]
    /\ decoded' = [decoded EXCEPT ![c] = w.decoded]
    /\ torn' = [torn EXCEPT ![c] = w.torn]
    /\ delivered' = [delivered EXCEPT ![c] = w.delivered]

Commit(c, w) == CommitConn(c, w) /\ UNCHANGED poolVars

(* The server: every connection, the pool and the tasks, as one record *)
Server ==
    [conns |-> Enumerated([c \in Conns |-> World(c)]), acpPool |-> acpPool, tasks |-> tasks,
     shutdown |-> shutdown]

(* The keys of acpPool *)
Pooled(S) == {a \in AgentIds : S.acpPool[a] # NoConn}

(* Mutant of the connection: one ID counter for the whole process *)
CommitAllSharedCounter(S) ==
    /\ child' = [c \in Conns |-> S.conns[c].child]
    /\ buffer' = [c \in Conns |-> S.conns[c].buffer]
    /\ nextRequestId' =
          [c \in Conns |->
             CHOOSE n \in {S.conns[d].nextRequestId : d \in Conns} :
                \A d \in Conns : S.conns[d].nextRequestId <= n]
    /\ pendingRequests' = [c \in Conns |-> S.conns[c].pendingRequests]
    /\ sessionId' = [c \in Conns |-> S.conns[c].sessionId]
    /\ onUpdate' = [c \in Conns |-> S.conns[c].onUpdate]
    /\ timers' = [c \in Conns |-> S.conns[c].timers]
    /\ calls' = [c \in Conns |-> Forget(S.conns[c].calls)]
    /\ proc' = [c \in Conns |-> S.conns[c].proc]
    /\ stdin' = [c \in Conns |-> S.conns[c].stdin]
    /\ stream' = [c \in Conns |-> S.conns[c].stream]
    /\ decoded' = [c \in Conns |-> S.conns[c].decoded]
    /\ torn' = [c \in Conns |-> S.conns[c].torn]
    /\ delivered' = [c \in Conns |-> S.conns[c].delivered]
    /\ acpPool' = S.acpPool
    /\ tasks' = S.tasks
    /\ shutdown' = [S.shutdown EXCEPT !.visited = S.shutdown.visited \cap Pooled(S)]

CommitAll(S) ==
    /\ child' = [c \in Conns |-> S.conns[c].child]
    /\ buffer' = [c \in Conns |-> S.conns[c].buffer]
    /\ nextRequestId' = [c \in Conns |-> S.conns[c].nextRequestId]
    /\ pendingRequests' = [c \in Conns |-> S.conns[c].pendingRequests]
    /\ sessionId' = [c \in Conns |-> S.conns[c].sessionId]
    /\ onUpdate' = [c \in Conns |-> S.conns[c].onUpdate]
    /\ timers' = [c \in Conns |-> S.conns[c].timers]
    /\ calls' = [c \in Conns |-> Forget(S.conns[c].calls)]
    /\ proc' = [c \in Conns |-> S.conns[c].proc]
    /\ stdin' = [c \in Conns |-> S.conns[c].stdin]
    /\ stream' = [c \in Conns |-> S.conns[c].stream]
    /\ decoded' = [c \in Conns |-> S.conns[c].decoded]
    /\ torn' = [c \in Conns |-> S.conns[c].torn]
    /\ delivered' = [c \in Conns |-> S.conns[c].delivered]
    /\ acpPool' = S.acpPool
    /\ tasks' = S.tasks
    /\ shutdown' = [S.shutdown EXCEPT !.visited = S.shutdown.visited \cap Pooled(S)]

----------------------------------------------------------------------------
(* Finite maps (JavaScript Map) as functions with a finite domain *)

Remove(f, k) == Enumerated([x \in (DOMAIN f) \ {k} |-> f[x]])

Put(f, k, v) == Enumerated([x \in (DOMAIN f) \cup {k} |-> IF x = k THEN v ELSE f[x]])

MinOf(S) == CHOOSE x \in S : \A y \in S : x <= y

(* Keys of a Map in insertion order; ids and handles are inserted ascending *)
RECURSIVE Ascending(_)
Ascending(S) ==
    IF S = {} THEN <<>> ELSE <<MinOf(S)>> \o Ascending(S \ {MinOf(S)})

----------------------------------------------------------------------------
(* Promises: calls[k] is the promise the k-th sendRequest returned.          *)
(* quiet and still are observers: the time since the request was sent or    *)
(* since the last session/update notification (quiet), respectively the     *)
(* last session/update or session/request_permission frame (still), was     *)
(* handled while the request was pending; atTerminate marks a request that  *)
(* was pending when terminate() was called.                                 *)

NewPromise(method) ==
    [method |-> method, state |-> "pending", result |-> "", error |-> NoErr,
     id |-> NoId, quiet |-> 0, still |-> 0, atTerminate |-> FALSE,
     params |-> "",   \* observer: the params the request was sent with
     settled |-> 0]   \* observer: the calls of resolve and reject, counted up to 2

(* One more call of resolve or reject on a promise *)
Again(n) == IF n < 2 THEN n + 1 ELSE n

(* resolve(value): a promise settles once, later calls are ignored *)
Resolve(w, k, value) ==
    IF w.calls[k].state # "pending" THEN [w EXCEPT !.calls[k].settled = Again(@)]
    ELSE [w EXCEPT !.calls[k].state = "resolved", !.calls[k].result = value,
                   !.calls[k].settled = Again(@)]

(* reject(error) *)
Reject(w, k, error) ==
    IF w.calls[k].state # "pending" THEN [w EXCEPT !.calls[k].settled = Again(@)]
    ELSE [w EXCEPT !.calls[k].state = "rejected", !.calls[k].error = error,
                   !.calls[k].settled = Again(@)]

----------------------------------------------------------------------------
(* Timers: timers[h] is the armed timer with handle h; its closure deletes   *)
(* pendingRequests[id] and rejects promise `call` with `error`, or (kind     *)
(* "terminate") resumes terminate().                                        *)

FreeHandle(ts) == MinOf((1..(Cardinality(DOMAIN ts) + 1)) \ DOMAIN ts)

SetTimeout(ts, h, kind, id, call, error, ms) ==
    Put(ts, h, [kind |-> kind, id |-> id, call |-> call, error |-> error, rem |-> ms])

ClearTimeout(ts, h) == Remove(ts, h)

----------------------------------------------------------------------------
(* The subprocess's stdin: child.stdin.write(JSON.stringify(frame) + '\n')   *)

Writable(w) == w.proc.status = "running" /\ ~w.proc.stdinEnded

StdinWrite(w, frame) ==
    IF Writable(w) THEN [w EXCEPT !.stdin = Append(@, frame)] ELSE w

(* Mutant of sendRequest: the id counter is read but not incremented *)
SendRequestSameId(w, method, params, timeoutMs) ==
    LET k == Len(w.calls) + 1
        w0 == [w EXCEPT !.calls = Append(@, [NewPromise(method) EXCEPT !.params = params])]
    IN  IF w.child = "null" THEN Reject(w0, k, ErrNotConnected)
        ELSE
            LET id == w.nextRequestId
                h == FreeHandle(w.timers)
                w1 == [w0 EXCEPT
                         !.calls[k].id = id,
                         !.timers = SetTimeout(@, h, "request", id, k,
                                               ErrTimeout(method, timeoutMs), timeoutMs),
                         !.pendingRequests =
                             Put(@, id, [method |-> method, call |-> k, timeoutId |-> h])]
            IN  StdinWrite(w1, Call(method, id, params))

(* Mutant of sendRequest: the id is taken before the child is looked at *)
SendRequestIdFirst(w, method, params, timeoutMs) ==
    LET k == Len(w.calls) + 1
        id == w.nextRequestId
        w0 == [w EXCEPT !.calls = Append(@, [NewPromise(method) EXCEPT !.params = params]),
                        !.nextRequestId = id + 1]
    IN  IF w.child = "null" THEN Reject(w0, k, ErrNotConnected)
        ELSE
            LET h == FreeHandle(w.timers)
                w1 == [w0 EXCEPT
                         !.calls[k].id = id,
                         !.timers = SetTimeout(@, h, "request", id, k,
                                               ErrTimeout(method, timeoutMs), timeoutMs),
                         !.pendingRequests =
                             Put(@, id, [method |-> method, call |-> k, timeoutId |-> h])]
            IN  StdinWrite(w1, Call(method, id, params))

(* sendRequest(method, params, timeoutMs) *)
SendRequest(w, method, params, timeoutMs) ==
    LET k == Len(w.calls) + 1
        w0 == [w EXCEPT !.calls = Append(@, [NewPromise(method) EXCEPT !.params = params])]
    IN  IF w.child = "null" THEN Reject(w0, k, ErrNotConnected)
        ELSE
            LET id == w.nextRequestId
                h == FreeHandle(w.timers)
                w1 == [w0 EXCEPT
                         !.nextRequestId = id + 1,
                         !.calls[k].id = id,
                         !.timers = SetTimeout(@, h, "request", id, k,
                                               ErrTimeout(method, timeoutMs), timeoutMs),
                         !.pendingRequests =
                             Put(@, id, [method |-> method, call |-> k, timeoutId |-> h])]
            IN  StdinWrite(w1, Call(method, id, params))

(* Mutant of sendResponse: the reply does not carry the request's id *)
SendResponseNoId(w, id, result) ==
    IF w.child = "null" THEN w ELSE StdinWrite(w, Response(NoId, result))

(* sendResponse(id, result) *)
SendResponse(w, id, result) ==
    IF w.child = "null" THEN w ELSE StdinWrite(w, Response(id, result))

(* Mutant of sendError: nothing is written *)
SendErrorSilent(w, id, code, message) == w

(* sendError(id, code, message) *)
SendError(w, id, code, message) ==
    IF w.child = "null" THEN w ELSE StdinWrite(w, ErrorResponse(id, code, message))

(* Mutant of resetPromptTimeout: the timeout is extended by a period, not *)
(* restarted                                                              *)
ResetOneExtend(w, id) ==
    LET req == w.pendingRequests[id]
    IN  IF req.method # "session/prompt" THEN w
        ELSE [w EXCEPT !.timers[req.timeoutId].rem = @ + ResetTimeout,
                       !.timers[req.timeoutId].error = ErrPromptTimeout]

(* Mutant of resetPromptTimeout: the timer of every pending request is *)
(* restarted, whatever its method                                      *)
ResetOneAny(w, id) ==
    LET req == w.pendingRequests[id]
        cleared == ClearTimeout(w.timers, req.timeoutId)
        h == FreeHandle(cleared)
    IN  [w EXCEPT
           !.timers = SetTimeout(cleared, h, "request", id, req.call,
                                 ErrPromptTimeout, ResetTimeout),
           !.pendingRequests[id].timeoutId = h]

(* resetPromptTimeout(): one iteration of the loop, for pending id *)
ResetOne(w, id) ==
    LET req == w.pendingRequests[id]
    IN  IF req.method # "session/prompt" THEN w
        ELSE
            LET cleared == ClearTimeout(w.timers, req.timeoutId)
                h == FreeHandle(cleared)
            IN  [w EXCEPT
                   !.timers = SetTimeout(cleared, h, "request", id, req.call,
                                         ErrPromptTimeout, ResetTimeout),
                   !.pendingRequests[id].timeoutId = h]

RECURSIVE ResetEach(_, _)
ResetEach(w, ids) ==
    IF ids = <<>> THEN w ELSE ResetEach(ResetOne(w, Head(ids)), Tail(ids))

(* resetPromptTimeout() *)
ResetPromptTimeout(w) == ResetEach(w, Ascending(DOMAIN w.pendingRequests))

(* The local filesystem seen by fs.readFileSync / fs.writeFileSync *)
ReadableFiles == {"/file"}

WritableFiles == {"/file"}

(* Mutant of the invocation of the callback: the callback runs twice *)
InvokeOnUpdateTwice(w, params) ==
    IF w.onUpdate # 0
    THEN [w EXCEPT !.delivered = @ \o <<[to |-> w.onUpdate, params |-> params],
                                        [to |-> w.onUpdate, params |-> params]>>]
    ELSE w

(* if (this.onUpdate) this.onUpdate(msg.params) *)
InvokeOnUpdate(w, params) ==
    IF w.onUpdate # 0
    THEN [w EXCEPT !.delivered = Append(@, [to |-> w.onUpdate, params |-> params])]
    ELSE w

(* handleIncoming(msg) *)
HandleIncoming(w, msg) ==
    CASE msg.method = "session/update" /\ msg.params # "" ->
            ResetPromptTimeout(InvokeOnUpdate(w, msg.params))
      [] msg.method = "session/request_permission" /\ msg.id # NoId ->
            ResetPromptTimeout(SendResponse(w, msg.id, "allow"))
      [] msg.method = "fs/read_text_file" /\ msg.id # NoId ->
            IF msg.params \in ReadableFiles
            THEN SendResponse(w, msg.id, "content")
            ELSE SendError(w, msg.id, FsErrorCode, "ENOENT")
      [] msg.method = "fs/write_text_file" /\ msg.id # NoId ->
            IF msg.params \in WritableFiles
            THEN SendResponse(w, msg.id, "null")
            ELSE SendError(w, msg.id, FsErrorCode, "EACCES")
      [] OTHER -> w

(* The methods handleIncoming has a branch for *)
KnownMethods ==
    {"session/update", "session/request_permission", "fs/read_text_file",
     "fs/write_text_file"}

(* Mutant of handleMessage: a call with an unknown method is answered with *)
(* an error reply                                                          *)
HandleMessageNoSuchMethod(w, msg) ==
    IF Truthy(msg.method)
    THEN IF msg.method \in KnownMethods THEN HandleIncoming(w, msg)
         ELSE SendError(w, msg.id, FsErrorCode, "Method not found")
    ELSE IF msg.id # NoId /\ msg.id \in DOMAIN w.pendingRequests
    THEN
        LET req == w.pendingRequests[msg.id]
            w1 == [w EXCEPT !.pendingRequests = Remove(@, msg.id),
                            !.timers = ClearTimeout(@, req.timeoutId)]
        IN  IF msg.error.present
            THEN Reject(w1, req.call, ErrRemote(msg.error))
            ELSE Resolve(w1, req.call, msg.result)
    ELSE w

(* Mutant of handleMessage: a call of the agent is not dispatched while a   *)
(* request of the host is pending                                          *)
HandleMessageBlocking(w, msg) ==
    IF Truthy(msg.method)
    THEN IF DOMAIN w.pendingRequests # {} THEN w ELSE HandleIncoming(w, msg)
    ELSE IF msg.id # NoId /\ msg.id \in DOMAIN w.pendingRequests
    THEN
        LET req == w.pendingRequests[msg.id]
            w1 == [w EXCEPT !.pendingRequests = Remove(@, msg.id),
                            !.timers = ClearTimeout(@, req.timeoutId)]
        IN  IF msg.error.present
            THEN Reject(w1, req.call, ErrRemote(msg.error))
            ELSE Resolve(w1, req.call, msg.result)
    ELSE w

(* Mutant of handleMessage: a response settles the oldest pending request, *)
(* whatever id it carries                                                 *)
HandleMessageOldest(w, msg) ==
    IF Truthy(msg.method) THEN HandleIncoming(w, msg)
    ELSE IF msg.id # NoId /\ DOMAIN w.pendingRequests # {}
    THEN
        LET id == MinOf(DOMAIN w.pendingRequests)
            req == w.pendingRequests[id]
            w1 == [w EXCEPT !.pendingRequests = Remove(@, id),
                            !.timers = ClearTimeout(@, req.timeoutId)]
        IN  IF msg.error.present
            THEN Reject(w1, req.call, ErrRemote(msg.error))
            ELSE Resolve(w1, req.call, msg.result)
    ELSE w

(* Mutant of handleMessage: a response with an unknown id is answered with *)
(* an error reply                                                          *)
HandleMessageStrict(w, msg) ==
    IF Truthy(msg.method) THEN HandleIncoming(w, msg)
    ELSE IF msg.id # NoId /\ msg.id \in DOMAIN w.pendingRequests
    THEN
        LET req == w.pendingRequests[msg.id]
            w1 == [w EXCEPT !.pendingRequests = Remove(@, msg.id),
                            !.timers = ClearTimeout(@, req.timeoutId)]
        IN  IF msg.error.present
            THEN Reject(w1, req.call, ErrRemote(msg.error))
            ELSE Resolve(w1, req.call, msg.result)
    ELSE SendError(w, msg.id, FsErrorCode, "unknown id")

(* Mutant of handleMessage: the pending table is looked up before the *)
(* method of the frame                                                *)
HandleMessageIdFirst(w, msg) ==
    IF msg.id # NoId /\ msg.id \in DOMAIN w.pendingRequests
    THEN
        LET req == w.pendingRequests[msg.id]
            w1 == [w EXCEPT !.pendingRequests = Remove(@, msg.id),
                            !.timers = ClearTimeout(@, req.timeoutId)]
        IN  IF msg.error.present
            THEN Reject(w1, req.call, ErrRemote(msg.error))
            ELSE Resolve(w1, req.call, msg.result)
    ELSE IF Truthy(msg.method) THEN HandleIncoming(w, msg)
    ELSE w

(* handleMessage(msg) *)
HandleMessage(w, msg) ==
    IF Truthy(msg.method) THEN HandleIncoming(w, msg)
    ELSE IF msg.id # NoId /\ msg.id \in DOMAIN w.pendingRequests
    THEN
        LET req == w.pendingRequests[msg.id]
            w1 == [w EXCEPT !.pendingRequests = Remove(@, msg.id),
                            !.timers = ClearTimeout(@, req.timeoutId)]
        IN  IF msg.error.present
            THEN Reject(w1, req.call, ErrRemote(msg.error))
            ELSE Resolve(w1, req.call, msg.result)
    ELSE w

----------------------------------------------------------------------------
(* Line framer.  A character is a record: a newline, a blank, a stray        *)
(* character, or one of the two halves of the text of a JSON document        *)
(* ("{" carrying the document, and the closing "}").                         *)

NoDoc == Frame("", NoId, "", "", NoError)

Ch(s) == [ch |-> s, doc |-> NoDoc]

Open(f) == [ch |-> "{", doc |-> f]

(* JSON.stringify(f) *)
Text(f) == <<Open(f), Ch("}")>>

Line(f) == Text(f) \o <<Ch("\n")>>

IsSpace(x) == x.ch = " "

(* line.trim() === '' *)
IsBlank(line) == \A i \in 1..Len(line) : IsSpace(line[i])

(* The characters of a line that are not whitespace *)
RECURSIVE Tokens(_)
Tokens(line) ==
    IF line = <<>> THEN <<>>
    ELSE IF IsSpace(Head(line)) THEN Tokens(Tail(line))
    ELSE <<Head(line)>> \o Tokens(Tail(line))

(* JSON.parse(line): whitespace around and between the tokens is skipped; *)
(* anything but one whole document is a SyntaxError.                      *)
JSONParse(line) ==
    LET toks == Tokens(line)
    IN  IF Len(toks) = 2 /\ toks[1].ch = "{" /\ toks[2].ch = "}"
        THEN [ok |-> TRUE, msg |-> toks[1].doc]
        ELSE [ok |-> FALSE, msg |-> NoDoc]

(* s.split('\n'): the segments between newlines, one more than the newlines *)
RECURSIVE Split(_)
Split(s) ==
    IF \A i \in 1..Len(s) : s[i].ch # "\n" THEN <<s>>
    ELSE LET n == MinOf({i \in 1..Len(s) : s[i].ch = "\n"})
         IN  <<SubSeq(s, 1, n - 1)>> \o Split(SubSeq(s, n + 1, Len(s)))

(* Observers of a document handed to handleMessage *)
IsUpdate(msg) == msg.method = "session/update" /\ msg.params # ""

IsPermission(msg) == msg.method = "session/request_permission" /\ msg.id # NoId

Observe(w, msg) ==
    [w EXCEPT
       !.decoded = Append(@, msg),
       !.calls = Enumerated(
                    [k \in DOMAIN w.calls |->
                       IF w.calls[k].state = "pending" /\ w.calls[k].method = "session/prompt"
                       THEN [w.calls[k] EXCEPT
                               !.quiet = IF IsUpdate(msg) THEN 0 ELSE w.calls[k].quiet,
                               !.still = IF IsUpdate(msg) \/ IsPermission(msg)
                                         THEN 0 ELSE w.calls[k].still]
                       ELSE w.calls[k]])]

(* The body of the for loop of the stdout 'data' handler *)
ProcessLine(w, line) ==
    IF IsBlank(line) THEN w
    ELSE LET p == JSONParse(line)
         IN  IF p.ok THEN HandleMessage(Observe(w, p.msg), p.msg) ELSE w

(* Mutant of the for loop: one try/catch around the whole loop, so that the *)
(* first malformed line ends it                                            *)
RECURSIVE ProcessLinesAbort(_, _)
ProcessLinesAbort(w, lines) ==
    IF lines = <<>> THEN w
    ELSE IF ~IsBlank(Head(lines)) /\ ~JSONParse(Head(lines)).ok THEN w
    ELSE ProcessLinesAbort(ProcessLine(w, Head(lines)), Tail(lines))

RECURSIVE ProcessLines(_, _)
ProcessLines(w, lines) ==
    IF lines = <<>> THEN w
    ELSE ProcessLines(ProcessLine(w, Head(lines)), Tail(lines))

(* Mutant of the data handler: the trailing partial line is not kept *)
DataHandlerNoCarry(w, data) ==
    LET lines == Split(w.buffer \o data)
        w1 == [w EXCEPT !.buffer = <<>>]
    IN  ProcessLines(w1, SubSeq(lines, 1, Len(lines) - 1))

(* child.stdout.on('data', data => ...) *)
DataHandler(w, data) ==
    LET lines == Split(w.buffer \o data)
        w1 == [w EXCEPT !.buffer = lines[Len(lines)]]
    IN  ProcessLines(w1, SubSeq(lines, 1, Len(lines) - 1))

(* child.on('exit', ...): one iteration of the loop, for pending id *)
ExitOne(w, id) ==
    LET req == w.pendingRequests[id]
    IN  [Reject(w, req.call, ErrExited) EXCEPT
           !.timers = ClearTimeout(@, req.timeoutId)]

RECURSIVE ExitEach(_, _)
ExitEach(w, ids) ==
    IF ids = <<>> THEN w ELSE ExitEach(ExitOne(w, Head(ids)), Tail(ids))

(* Mutant of the exit handler: the child is forgotten, the pending requests *)
(* are left alone                                                          *)
ExitHandlerKeep(w) == [w EXCEPT !.child = "null"]

(* child.on('exit', ...) *)
ExitHandler(w) ==
    LET w1 == ExitEach([w EXCEPT !.child = "null"], Ascending(DOMAIN w.pendingRequests))
    IN  [w1 EXCEPT !.pendingRequests = <<>>]

(* Mutant of the timer's callback: the caller is rejected, the entry stays *)
TimeoutHandlerLeak(w, h) ==
    [Reject(w, w.timers[h].call, w.timers[h].error) EXCEPT !.timers = Remove(@, h)]

(* The callback of a request's timer (armed by sendRequest or by            *)
(* resetPromptTimeout): delete the entry, reject the caller.                *)
TimeoutHandler(w, h) ==
    LET t == w.timers[h]
        w1 == [w EXCEPT !.timers = Remove(@, h),
                        !.pendingRequests = Remove(@, t.id)]
    IN  Reject(w1, t.call, t.error)

(* terminate(), up to its await: end stdin, send SIGTERM, arm the 5 s timer *)
TerminateStart(w) ==
    IF w.child = "null" THEN w
    ELSE [w EXCEPT
            !.proc.stdinEnded = TRUE,
            !.proc.killed = TRUE,
            !.timers = SetTimeout(@, FreeHandle(@), "terminate", NoId, 0, NoErr,
                                  TerminateWait)]

(* terminate(), after its await (the 'exit' event or the 5 s timer) *)
TerminateResume(w) == [w EXCEPT !.child = "null"]

----------------------------------------------------------------------------
(* Inputs *)

Results == {"ok"}

AgentFrames ==
    {Response(i, r) : i \in 1..MaxCalls, r \in Results}
    \cup {ErrorResponse(i, 7, "failed") : i \in 1..MaxCalls}
    \cup {Call("session/update", NoId, "chunk"),
          Call("session/request_permission", MaxAgentId, "tool")}

RequestMethods == {"initialize", "session/new", "session/prompt"}

LineChunks == {Line(f) : f \in AgentFrames}

(* The characters of the framer's input: a newline, a blank, and the two *)
(* halves of the response to request 1                                   *)
FirstResponse == Response(MinOf(1..MaxCalls), "ok")

FramerChars == {Ch("\n"), Ch(" "), Ch("}"), Open(FirstResponse)}

CharChunks == UNION {[1..n -> FramerChars] : n \in 1..MaxChunkLen}

----------------------------------------------------------------------------
(* server.js: the connection pool and processMessage() *)

(* isRunning() *)
IsRunning(w) == w.child # "null" /\ ~w.proc.killed

(* The connections no task has constructed yet *)
Unused(S) ==
    {c \in Conns : S.conns[c].proc.status = "none"
                   /\ \A t \in Tasks : S.tasks[t].conn # c}

(* Task t calls a request method of connection c and awaits its promise *)
Await(S, t, c, method, params) ==
    LET w == SendRequest(S.conns[c], method, params, TimeoutOf(method))
    IN  [S EXCEPT !.conns[c] = w,
                  !.tasks[t].pc = method,
                  !.tasks[t].call = Len(w.calls)]

(* The methods getACP() awaits and lets fail *)
BootstrapMethods == {"initialize", "session/new", "session/set_mode"}

(* A connection whose subprocess is alive and whose bootstrap succeeded *)
Ready(w) ==
    /\ w.proc.status = "running"
    /\ \A m \in BootstrapMethods :
          \E k \in DOMAIN w.calls : w.calls[k].method = m /\ w.calls[k].state = "resolved"

(* processMessage() after getACP() returned conn: install the callback, *)
(* send the prompt                                                      *)
Prompt(S, t, c) ==
    Await([S EXCEPT !.conns[c].onUpdate = t,
                    !.tasks[t].conn = c,
                    !.tasks[t].returned = c,
                    !.tasks[t].ready = Ready(S.conns[c])],
          t, c, "session/prompt", "content")

(* queries.createSession(conversationId), for the session of task t *)
CreateSession(S, t) == [S EXCEPT !.tasks[t].status = <<"pending">>]

(* queries.updateSession(sessionId, { status, ... }) *)
UpdateSession(S, t, status) == [S EXCEPT !.tasks[t].status = Append(@, status)]

(* queries.createMessage(conversationId, 'assistant', text) *)
CreateMessage(S, t) == [S EXCEPT !.tasks[t].messages = @ + 1]

(* Mutant of the catch block: the pool keeps its entry *)
CatchKeep(S, t) ==
    UpdateSession(CreateMessage([S EXCEPT !.tasks[t].pc = "error"], t), t, "error")

(* The catch block of processMessage() *)
Catch(S, t) ==
    UpdateSession(CreateMessage([S EXCEPT !.tasks[t].pc = "error",
                                          !.acpPool[S.tasks[t].agentId] = NoConn], t),
                  t, "error")

(* Mutant of the end of the try block: the statements after the update of *)
(* the session throw                                                      *)
CompletedThenThrows(S, t, c) ==
    Catch(UpdateSession(CreateMessage([S EXCEPT !.conns[c].onUpdate = 0], t),
                        t, "completed"), t)

(* The try block of processMessage() after sendPrompt() *)
Completed(S, t, c) ==
    UpdateSession(CreateMessage([S EXCEPT !.conns[c].onUpdate = 0,
                                          !.tasks[t].pc = "completed"], t),
                  t, "completed")

(* Mutant of getACP: an entry that is not running is spawned again in place *)
GetACPRepair(S, t, agentId) ==
    LET pooled == S.acpPool[agentId]
        c == IF pooled # NoConn THEN pooled ELSE MinOf(Unused(S))
    IN  IF pooled # NoConn /\ IsRunning(S.conns[pooled])
        THEN Prompt(S, t, pooled)
        ELSE [S EXCEPT !.conns[c].child = "child",
                       !.conns[c].proc.status = "running",
                       !.conns[c].proc.killed = FALSE,
                       !.tasks[t].pc = "connect",
                       !.tasks[t].conn = c]

(* getACP(agentId, cwd) up to its first await that suspends: a pooled,    *)
(* running connection is returned, otherwise a new connection is spawned  *)
(* and connect() waits its 500 ms                                         *)
GetACP(S, t, agentId) ==
    LET pooled == S.acpPool[agentId]
        c == MinOf(Unused(S))
    IN  IF pooled # NoConn /\ IsRunning(S.conns[pooled])
        THEN Prompt(S, t, pooled)
        ELSE [S EXCEPT !.conns[c].child = "child",
                       !.conns[c].proc.status = "running",
                       !.tasks[t].pc = "connect",
                       !.tasks[t].conn = c]

(* Mutant of the continuations: a failed bootstrap request does not throw *)
ResumeUnchecked(S, t) ==
    LET task == S.tasks[t]
        c == task.conn
        p == S.conns[c].calls[task.call]
        ok == p.state # "pending"
    IN  CASE task.pc = "initialize" ->
               IF ok THEN Await(S, t, c, "session/new", task.cwd) ELSE Catch(S, t)
          [] task.pc = "session/new" ->
               IF ok THEN Await([S EXCEPT !.conns[c].sessionId = p.result],
                                t, c, "session/set_mode", "bypassPermissions")
               ELSE Catch(S, t)
          [] task.pc = "session/set_mode" ->
               IF ok THEN Await(S, t, c, "session/skill_inject", "skills")
               ELSE Catch(S, t)
          [] task.pc = "session/skill_inject" ->
               Prompt([S EXCEPT !.acpPool[task.agentId] = c], t, c)
          [] task.pc = "session/prompt" ->
               IF ok THEN Completed(S, t, c)
               ELSE Catch(S, t)

(* Mutant of the continuations: injectSkills() without its catch *)
ResumeInjectThrows(S, t) ==
    LET task == S.tasks[t]
        c == task.conn
        p == S.conns[c].calls[task.call]
        ok == p.state = "resolved"
    IN  CASE task.pc = "initialize" ->
               IF ok THEN Await(S, t, c, "session/new", task.cwd) ELSE Catch(S, t)
          [] task.pc = "session/new" ->
               IF ok THEN Await([S EXCEPT !.conns[c].sessionId = p.result],
                                t, c, "session/set_mode", "bypassPermissions")
               ELSE Catch(S, t)
          [] task.pc = "session/set_mode" ->
               IF ok THEN Await(S, t, c, "session/skill_inject", "skills")
               ELSE Catch(S, t)
          [] task.pc = "session/skill_inject" ->
               IF ok THEN Prompt([S EXCEPT !.acpPool[task.agentId] = c], t, c)
               ELSE Catch(S, t)
          [] task.pc = "session/prompt" ->
               IF ok THEN Completed(S, t, c)
               ELSE Catch(S, t)

(* The continuation of task t when the promise it awaits has settled *)
Resume(S, t) ==
    LET task == S.tasks[t]
        c == task.conn
        p == S.conns[c].calls[task.call]
        ok == p.state = "resolved"
    IN  CASE task.pc = "initialize" ->
               IF ok THEN Await(S, t, c, "session/new", task.cwd) ELSE Catch(S, t)
          [] task.pc = "session/new" ->
               IF ok THEN Await([S EXCEPT !.conns[c].sessionId = p.result],
                                t, c, "session/set_mode", "bypassPermissions")
               ELSE Catch(S, t)
          [] task.pc = "session/set_mode" ->
               IF ok THEN Await(S, t, c, "session/skill_inject", "skills")
               ELSE Catch(S, t)
          [] task.pc = "session/skill_inject" ->
               Prompt([S EXCEPT !.acpPool[task.agentId] = c], t, c)
          [] task.pc = "session/prompt" ->
               IF ok THEN Completed(S, t, c)
               ELSE Catch(S, t)

(* The SIGTERM handler from the head of its loop to its next await that    *)
(* suspends: terminate() returns at once on a connection without child;    *)
(* on the next entry with a child it ends stdin, sends SIGTERM and waits;  *)
(* after the last entry, acpPool.clear().  (The set holds one state for    *)
(* each entry the iterator may be at.)                                     *)
Drain(S) ==
    LET todo == Pooled(S) \ S.shutdown.visited
        live == {a \in todo : S.conns[S.acpPool[a]].child # "null"}
    IN  IF live = {}
        THEN {[S EXCEPT !.acpPool = [a \in AgentIds |-> NoConn],
                        !.shutdown = [pc |-> "cleared", visited |-> {}, conn |-> NoConn,
                                      dropped |-> {S.acpPool[a] : a \in
                                                     {b \in Pooled(S) :
                                                        S.conns[S.acpPool[b]].child # "null"}}]]}
        ELSE {[S EXCEPT !.conns[S.acpPool[a]] = TerminateStart(S.conns[S.acpPool[a]]),
                        !.shutdown = [pc |-> "terminating",
                                      visited |-> S.shutdown.visited \cup (todo \ live) \cup {a},
                                      conn |-> S.acpPool[a],
                                      dropped |-> {}]] : a \in live}

(* terminate() of the awaited connection resumes (this.child = null), and *)
(* the loop of the SIGTERM handler goes on                                *)
DrainResume(S) ==
    Drain([S EXCEPT !.conns[S.shutdown.conn] = TerminateResume(S.conns[S.shutdown.conn]),
                    !.shutdown.conn = NoConn])

(* The tasks whose awaited promise has settled *)
Runnable(S) ==
    {t \in Tasks : /\ S.tasks[t].pc \in HostMethods
                   /\ S.conns[S.tasks[t].conn].calls[S.tasks[t].call].state # "pending"}

(* The promise jobs that follow a handler: every continuation that can run *)
(* runs before the next event, in the order of the calls awaited           *)
RECURSIVE Run(_)
Run(S) ==
    IF Runnable(S) = {} THEN S
    ELSE LET t == CHOOSE x \in Runnable(S) :
                     \A y \in Runnable(S) : S.tasks[x].call <= S.tasks[y].call
         IN  Run(Resume(S, t))

----------------------------------------------------------------------------
(* Actions *)

Init ==
    /\ child = [c \in Conns |-> NewConnection.child]
    /\ buffer = [c \in Conns |-> NewConnection.buffer]
    /\ nextRequestId = [c \in Conns |-> NewConnection.nextRequestId]
    /\ pendingRequests = [c \in Conns |-> NewConnection.pendingRequests]
    /\ sessionId = [c \in Conns |-> NewConnection.sessionId]
    /\ onUpdate = [c \in Conns |-> NewConnection.onUpdate]
    /\ timers = [c \in Conns |-> NewConnection.timers]
    /\ calls = [c \in Conns |-> NewConnection.calls]
    /\ proc = [c \in Conns |-> NewConnection.proc]
    /\ stdin = [c \in Conns |-> NewConnection.stdin]
    /\ stream = [c \in Conns |-> NewConnection.stream]
    /\ decoded = [c \in Conns |-> NewConnection.decoded]
    /\ torn = [c \in Conns |-> NewConnection.torn]
    /\ delivered = [c \in Conns |-> NewConnection.delivered]
    /\ acpPool = [a \in AgentIds |-> NoConn]
    /\ shutdown = NoShutdown
    /\ tasks = [t \in Tasks |-> NoTask]

(* connect(agentType, cwd): spawn the subprocess and attach the handlers *)
Connect(c) ==
    /\ child[c] = "null"
    /\ proc[c].status = "none"
    /\ Commit(c, [World(c) EXCEPT !.child = "child", !.proc.status = "running"])

(* A caller issues initialize(), newSession(), setSessionMode(),            *)
(* injectSkills() or sendPrompt(): each is one sendRequest                  *)
Request(c, method) ==
    /\ Len(calls[c]) < MaxCalls
    /\ Commit(c, SendRequest(World(c), method, "", TimeoutOf(method)))

(* The subprocess's stdout delivers one chunk *)
Stdout(c, chunk) ==
    /\ proc[c].status # "none"
    /\ LET w == DataHandler(World(c), chunk)
       IN  /\ Len(w.stdin) <= MaxStdin
           /\ Commit(c, [w EXCEPT !.decoded = decoded[c]])

StdoutData(c) == \E chunk \in LineChunks : Stdout(c, chunk)

(* The same, with the observers stream, decoded and torn recording it *)
Feed(c, chunk) ==
    /\ proc[c].status # "none"
    /\ Len(stream[c]) + Len(chunk) <= MaxStream
    /\ LET w == DataHandler(World(c), chunk)
       IN  /\ Len(w.stdin) <= MaxStdin
           /\ Commit(c, [w EXCEPT
                           !.stream = @ \o chunk,
                           !.torn = @ \/ (w.buffer # <<>> /\ w.buffer[Len(w.buffer)].ch = "{")])

StdoutChars(c) == \E chunk \in CharChunks : Feed(c, chunk)

(* The first request of a connection: initialize() *)
FirstRequest(c) ==
    /\ calls[c] = <<>>
    /\ Commit(c, SendRequest(World(c), "initialize", "", TimeoutOf("initialize")))

(* The subprocess exits: the 'exit' event *)
Exit(c) ==
    /\ proc[c].status = "running"
    /\ Commit(c, ExitHandler([World(c) EXCEPT !.proc.status = "exited"]))

(* A caller calls terminate() *)
Terminate(c) ==
    /\ child[c] # "null"
    /\ \A h \in DOMAIN timers[c] : timers[c][h].kind # "terminate"
    /\ LET w == TerminateStart(World(c))
       IN  Commit(c, [w EXCEPT !.calls =
                        [k \in DOMAIN w.calls |->
                           [w.calls[k] EXCEPT
                              !.atTerminate = (w.calls[k].state = "pending")]]])

(* A request's timer that is due fires *)
Expire(c, h) ==
    /\ timers[c][h].rem = 0
    /\ timers[c][h].kind = "request"
    /\ Commit(c, TimeoutHandler(World(c), h))

(* The 5 s timer of terminate() fires and terminate() resumes *)
TerminateTimeout(c, h) ==
    /\ timers[c][h].rem = 0
    /\ timers[c][h].kind = "terminate"
    /\ Commit(c, TerminateResume([World(c) EXCEPT !.timers = Remove(@, h)]))

Elapse(ms) == IF ms > Quantum THEN ms - Quantum ELSE 0

Later(ms) == IF ms <= PromptTimeout THEN ms + Quantum ELSE ms

(* Time passes: Quantum milliseconds, while no timer that is due has yet *)
(* to fire.                                                              *)
Tick ==
    /\ \E c \in Conns : DOMAIN timers[c] # {}
    /\ \A c \in Conns : \A h \in DOMAIN timers[c] : timers[c][h].rem > 0
    /\ timers' = [c \in Conns |->
                    [h \in DOMAIN timers[c] |->
                       [timers[c][h] EXCEPT !.rem = Elapse(@)]]]
    /\ calls' = [c \in Conns |->
                   [k \in DOMAIN calls[c] |->
                      IF calls[c][k].state = "pending"
                         /\ calls[c][k].method = "session/prompt"
                      THEN [calls[c][k] EXCEPT !.quiet = Later(@), !.still = Later(@)]
                      ELSE calls[c][k]]]
    /\ UNCHANGED <<child, buffer, nextRequestId, pendingRequests, sessionId,
                   onUpdate, proc, stdin, stream, decoded, torn, delivered,
                   poolVars>>

(* The connection the callers of the class drive *)
ClassConns == {MinOf(Conns)}

ExpireSome == \E c \in ClassConns : \E h \in DOMAIN timers[c] : Expire(c, h)

TerminateTimeoutSome ==
    \E c \in ClassConns : \E h \in DOMAIN timers[c] : TerminateTimeout(c, h)

(* The class driven by its callers, the subprocess and the clock *)
Next ==
    \/ \E c \in ClassConns : Connect(c)
    \/ \E c \in ClassConns, method \in RequestMethods : Request(c, method)
    \/ \E c \in ClassConns : StdoutData(c)
    \/ \E c \in ClassConns : Exit(c)
    \/ ExpireSome
    \/ Tick

Spec == Init /\ [][Next]_vars

(* The class with terminate(): a caller may also call terminate() *)
NextTerm ==
    \/ \E c \in ClassConns : Connect(c)
    \/ \E c \in ClassConns : Request(c, "session/prompt")
    \/ \E c \in ClassConns : Stdout(c, Line(FirstResponse))
    \/ \E c \in ClassConns : Exit(c)
    \/ \E c \in ClassConns : Terminate(c)
    \/ ExpireSome
    \/ TerminateTimeoutSome
    \/ Tick

SpecTerm == Init /\ [][NextTerm]_vars

(* The frames that settle a prompt or restart its timer *)
SettleFrames ==
    {FirstResponse, ErrorResponse(FirstResponse.id, 7, "failed"),
     Call("session/update", NoId, "chunk")}

(* The class with every event that settles a request or moves its timer *)
NextSettle ==
    \/ \E c \in ClassConns : Connect(c)
    \/ \E c \in ClassConns : Request(c, "session/prompt")
    \/ \E c \in ClassConns, f \in SettleFrames : Stdout(c, Line(f))
    \/ \E c \in ClassConns : Exit(c)
    \/ \E c \in ClassConns : Terminate(c)
    \/ ExpireSome
    \/ TerminateTimeoutSome
    \/ Tick

SpecSettle == Init /\ [][NextSettle]_vars

(* processMessage() task failed in sendPrompt() for agentId *)
PromptFailed(task, agentId) ==
    task.pc = "error" /\ task.returned # NoConn /\ task.agentId = agentId

(* The working directory of a request without folderContext.path *)
DefaultCwd == "/config"

(* POST /messages: the handler creates the session record and starts *)
(* processMessage() for agentId, with the folder of the request as cwd *)
SubmitIn(t, agentId, cwd) ==
    /\ tasks[t].pc = "idle"
    /\ \A u \in Tasks : u < t => tasks[u].pc # "idle"
    /\ Unused(Server) # {}
    /\ CommitAll(Run(GetACP(UpdateSession(CreateSession(
                                 [Server EXCEPT
                                    !.tasks[t].agentId = agentId,
                                    !.tasks[t].cwd = cwd,
                                    !.tasks[t].afterFailure =
                                        \E u \in Tasks : PromptFailed(tasks[u], agentId)],
                                 t), t, "processing"),
                             t, agentId)))

(* POST /messages without folderContext *)
Submit(t, agentId) == SubmitIn(t, agentId, DefaultCwd)

(* The 500 ms of connect() are over: getACP() goes on with initialize() *)
Connected(t) ==
    /\ tasks[t].pc = "connect"
    /\ CommitAll(Run(Await(Server, t, tasks[t].conn, "initialize", "")))

(* The agent reads the oldest request on its stdin and answers it *)
Reply(c) ==
    /\ proc[c].status = "running"
    /\ stdin[c] # <<>>
    /\ \E f \in {Response(Head(stdin[c]).id, "ok"),
                 ErrorResponse(Head(stdin[c]).id, 7, "failed")} :
          LET w == DataHandler([World(c) EXCEPT !.stdin = Tail(@)], Line(f))
          IN  CommitAll(Run([Server EXCEPT !.conns[c] = [w EXCEPT !.decoded = decoded[c]]]))

(* The subprocess of a pooled or bootstrapping connection exits *)
PoolExit(c) ==
    /\ proc[c].status = "running"
    /\ CommitAll(Run([Server EXCEPT
                        !.conns[c] = ExitHandler([World(c) EXCEPT !.proc.status = "exited"])]))

(* The agentIds of the requests that arrive around a shutdown *)
ShutdownAgents == {"claude-code"}

(* A request arrives before the SIGTERM handler closes the server *)
Arrive(t, agentId) ==
    /\ shutdown.pc # "cleared"
    /\ Submit(t, agentId)

(* The process receives SIGTERM *)
Sigterm ==
    /\ shutdown.pc = "idle"
    /\ \E S \in Drain(Server) : CommitAll(S)

(* The subprocess exits: the 'exit' handler of connect(), the promise jobs *)
(* of the rejected requests, then the 'exit' listener of terminate()       *)
ShutdownExit(c) ==
    /\ proc[c].status = "running"
    /\ LET S == Run([Server EXCEPT
                       !.conns[c] = ExitHandler([World(c) EXCEPT !.proc.status = "exited"])])
       IN  IF shutdown.pc = "terminating" /\ shutdown.conn = c
           THEN \E S2 \in DrainResume(S) : CommitAll(S2)
           ELSE CommitAll(S)

(* The 5 s timer of a terminate() fires *)
ShutdownTimeout(c, h) ==
    /\ timers[c][h].kind = "terminate"
    /\ LET S == [Server EXCEPT !.conns[c].timers = Remove(timers[c], h)]
       IN  IF shutdown.pc = "terminating" /\ shutdown.conn = c
           THEN \E S2 \in DrainResume(S) : CommitAll(S2)
           ELSE CommitAll(S)

ShutdownTimeoutSome ==
    \E c \in Conns : \E h \in DOMAIN timers[c] : ShutdownTimeout(c, h)

(* The server around a shutdown *)
NextShutdown ==
    \/ \E t \in Tasks, agentId \in ShutdownAgents : Arrive(t, agentId)
    \/ \E t \in Tasks : Connected(t)
    \/ \E c \in Conns : Reply(c)
    \/ \E c \in Conns : ShutdownExit(c)
    \/ ShutdownTimeoutSome
    \/ Sigterm

SpecShutdown == Init /\ [][NextShutdown]_vars

(* The timer of the oldest pending request of a pooled or bootstrapping *)
(* connection fires                                                    *)
PoolExpire(c, h) ==
    /\ timers[c][h].kind = "request"
    /\ \A g \in DOMAIN timers[c] :
          timers[c][g].kind = "request" => timers[c][h].call <= timers[c][g].call
    /\ CommitAll(Run([Server EXCEPT !.conns[c] = TimeoutHandler(World(c), h)]))

PoolExpireSome == \E c \in Conns : \E h \in DOMAIN timers[c] : PoolExpire(c, h)

(* A request for an agentId no earlier request was for *)
SubmitOther(t, agentId) ==
    /\ \A u \in Tasks : tasks[u].agentId # agentId
    /\ Submit(t, agentId)

(* The server with the request timers of its connections, each agentId *)
(* with one processMessage()                                           *)
NextTimedPool ==
    \/ \E t \in Tasks, agentId \in AgentIds : SubmitOther(t, agentId)
    \/ \E t \in Tasks : Connected(t)
    \/ \E c \in Conns : Reply(c)
    \/ \E c \in Conns : PoolExit(c)
    \/ PoolExpireSome

SpecTimedPool == Init /\ [][NextTimedPool]_vars

(* The binary could not be spawned: the 'error' event of the child arrives *)
(* during the 500 ms of connect(); its handler logs the error              *)
SpawnError(c) ==
    /\ proc[c].status = "running"
    /\ \E t \in Tasks : tasks[t].conn = c /\ tasks[t].pc = "connect"
    /\ Commit(c, [World(c) EXCEPT !.proc.status = "failed"])

(* The server with agent binaries that may be missing *)
NextLaunch ==
    \/ \E t \in Tasks, agentId \in AgentIds : Submit(t, agentId)
    \/ \E t \in Tasks : Connected(t)
    \/ \E c \in Conns : Reply(c)
    \/ \E c \in Conns : PoolExit(c)
    \/ \E c \in Conns : SpawnError(c)

SpecLaunch == Init /\ [][NextLaunch]_vars

(* A timer of a pooled or bootstrapping connection that is due fires *)
PoolDue(c, h) ==
    /\ timers[c][h].rem = 0
    /\ timers[c][h].kind = "request"
    /\ CommitAll(Run([Server EXCEPT !.conns[c] = TimeoutHandler(World(c), h)]))

PoolDueSome == \E c \in Conns : \E h \in DOMAIN timers[c] : PoolDue(c, h)

(* The agent of a connection with a prompt pending emits a session/update *)
PoolUpdate(c) ==
    /\ proc[c].status = "running"
    /\ \E id \in DOMAIN pendingRequests[c] : pendingRequests[c][id].method = "session/prompt"
    /\ LET w == DataHandler(World(c), Line(Call("session/update", NoId, "chunk")))
       IN  CommitAll(Run([Server EXCEPT
                            !.conns[c] = [w EXCEPT !.decoded = decoded[c],
                                                   !.delivered = delivered[c]]]))

SomeConnected == \E t \in Tasks : Connected(t)

(* The subprocess of a connection that is pooled or has a request pending *)
(* exits                                                                  *)
LiveExit(c) ==
    /\ pendingRequests[c] # <<>> \/ \E a \in AgentIds : acpPool[a] = c
    /\ PoolExit(c)

(* A request for the agent arrives while no getACP() is bootstrapping and *)
(* the prompts under way are on the pooled connection                    *)
SubmitNext(t) ==
    /\ \A u \in Tasks : tasks[u].pc \in {"idle", "session/prompt", "completed", "error"}
    /\ \A u \in Tasks : tasks[u].pc = "session/prompt" =>
                             tasks[u].conn = acpPool["claude-code"]
    /\ Submit(t, "claude-code")

(* The server under a clock that keeps going: the wait of connect() ends, *)
(* timers fire when due; the agent answers, streams, or exits as it likes *)
NextLivePool ==
    \/ \E t \in Tasks : SubmitNext(t)
    \/ SomeConnected
    \/ \E c \in Conns : Reply(c)
    \/ \E c \in Conns : PoolUpdate(c)
    \/ \E c \in Conns : LiveExit(c)
    \/ PoolDueSome
    \/ Tick

(* SomeConnected can happen: the 500 ms wait of a connect() is running *)
Connecting == \E t \in Tasks : tasks[t].pc = "connect"

(* PoolDueSome can happen: a request timer is due *)
Due ==
    \E c \in Conns : \E h \in DOMAIN timers[c] :
        timers[c][h].rem = 0 /\ timers[c][h].kind = "request"

(* Weak fairness of SomeConnected and of PoolDueSome is written out with *)
(* the conditions under which they can happen                            *)
SpecLivePool ==
    /\ Init /\ [][NextLivePool]_vars
    /\ WF_vars(Tick)
    /\ ([]<>(~Connecting) \/ []<><<SomeConnected>>_vars)
    /\ ([]<>(~Due) \/ []<><<PoolDueSome>>_vars)

(* The folders the requests come with *)
Folders == {DefaultCwd, "/work"}

(* The server with requests for one agentId from several folders *)
NextFolders ==
    \/ \E t \in Tasks, cwd \in Folders : SubmitIn(t, "claude-code", cwd)
    \/ \E t \in Tasks : Connected(t)
    \/ \E c \in Conns : Reply(c)
    \/ \E c \in Conns : PoolExit(c)

SpecFolders == Init /\ [][NextFolders]_vars

(* The server: concurrent processMessage() calls over the pool *)
NextPool ==
    \/ \E t \in Tasks, agentId \in AgentIds : Submit(t, agentId)
    \/ \E t \in Tasks : Connected(t)
    \/ \E c \in Conns : Reply(c)
    \/ \E c \in Conns : PoolExit(c)

SpecPool == Init /\ [][NextPool]_vars

(* The class under a clock that keeps going and timers that fire when due: *)
(* Node's event loop runs a due timer's callback, and time passes          *)
LiveMethods == {"initialize", "session/prompt"}

LiveFrames == {FirstResponse, Call("session/update", NoId, "chunk")}

NextLive ==
    \/ \E c \in ClassConns : Connect(c)
    \/ \E c \in ClassConns, method \in LiveMethods : Request(c, method)
    \/ \E c \in ClassConns, f \in LiveFrames : Stdout(c, Line(f))
    \/ \E c \in ClassConns : Exit(c)
    \/ ExpireSome
    \/ Tick

SpecLive == Init /\ [][NextLive]_vars /\ WF_vars(Tick) /\ WF_vars(ExpireSome)

(* The calls the agent makes to the host, with an id *)
HostIds == {1, MaxAgentId}

PermissionFrames ==
    {Call("session/request_permission", i, "tool") : i \in HostIds}

FsPaths == {"/file", "/missing"}

FsFrames ==
    {Call(m, i, path) : m \in {"fs/read_text_file", "fs/write_text_file"},
                        i \in HostIds, path \in FsPaths}

(* A chunk with one call, or with a filesystem call and a permission *)
(* request behind it                                                 *)
HostChunks ==
    {Line(f) : f \in PermissionFrames \cup FsFrames}
    \cup {Line(f) \o Line(g) : f \in FsFrames, g \in PermissionFrames}

(* A 'data' event, with the observer decoded recording the documents *)
Incoming(c, chunk) ==
    /\ proc[c].status # "none"
    /\ LET w == DataHandler(World(c), chunk)
       IN  /\ Len(w.stdin) <= MaxStdin
           /\ Len(w.decoded) <= MaxStdin
           /\ Commit(c, w)

(* sendPrompt() as the only request of the connection *)
OnlyPrompt(c) ==
    /\ calls[c] = <<>>
    /\ Request(c, "session/prompt")

(* The dispatcher of the agent's calls, with a prompt of the host under way *)
NextHost ==
    \/ \E c \in ClassConns : Connect(c)
    \/ \E c \in ClassConns : OnlyPrompt(c)
    \/ \E c \in ClassConns, chunk \in HostChunks : Incoming(c, chunk)
    \/ \E c \in ClassConns : Incoming(c, Line(FirstResponse))
    \/ \E c \in ClassConns : Exit(c)

SpecHost == Init /\ [][NextHost]_vars

(* Frames with a method field whose id may equal the id of a pending *)
(* request of the host                                               *)
CollideMethods ==
    {"session/update", "session/request_permission", "fs/read_text_file",
     "terminal/create", EmptyString}

CollideFrames == {Call(m, i, "/file") : m \in CollideMethods, i \in HostIds}

(* A 'data' event with one such frame, or with the response to request 1 *)
Collide(c, f) ==
    /\ Len(decoded[c]) < MaxCalls
    /\ Incoming(c, Line(f))

(* The dispatcher with requests of the host pending under the ids the *)
(* agent uses for its own calls                                       *)
NextCollide ==
    \/ \E c \in ClassConns : Connect(c)
    \/ \E c \in ClassConns, method \in LiveMethods : Request(c, method)
    \/ \E c \in ClassConns, f \in CollideFrames \cup {FirstResponse} : Collide(c, f)
    \/ \E c \in ClassConns : Exit(c)

SpecCollide == Init /\ [][NextCollide]_vars

(* session/update notifications, with and without params, with and *)
(* without an id                                                   *)
UpdateFrames ==
    {Call("session/update", NoId, ""), Call("session/update", NoId, "chunk"),
     Call("session/update", NoId, "plan"), Call("session/update", MaxAgentId, "chunk")}

(* Frames with a method handleIncoming has no branch for *)
UnknownFrames ==
    {Call("terminal/create", i, "x") : i \in {NoId, MaxAgentId}}

NotifyChunks ==
    {Line(f) : f \in UpdateFrames \cup UnknownFrames}
    \cup {Line(f) \o Line(g) : f, g \in {h \in UpdateFrames : h.id = NoId /\ h.params # ""}}

(* processMessage() installs its callback (conn.onUpdate = ...) or removes *)
(* it (conn.onUpdate = null)                                               *)
SetOnUpdate(c, v) ==
    /\ onUpdate[c] # v
    /\ Commit(c, [World(c) EXCEPT !.onUpdate = v])

(* The dispatcher of notifications and of frames with an unknown method *)
NextNotify ==
    \/ \E c \in ClassConns : Connect(c)
    \/ \E c \in ClassConns, v \in {0, 1, MaxTasks} : SetOnUpdate(c, v)
    \/ \E c \in ClassConns : OnlyPrompt(c)
    \/ \E c \in ClassConns, chunk \in NotifyChunks : Incoming(c, chunk)
    \/ \E c \in ClassConns : Exit(c)

SpecNotify == Init /\ [][NextNotify]_vars

(* The line framer fed arbitrary chunks of characters *)
NextFramer ==
    \/ \E c \in ClassConns : Connect(c)
    \/ \E c \in ClassConns : FirstRequest(c)
    \/ \E c \in ClassConns : StdoutChars(c)

SpecFramer == Init /\ [][NextFramer]_vars

----------------------------------------------------------------------------
(* Claims *)

ResponseFrames == {f \in AgentFrames : f.method = ""}

(* Promise p is settled with the result or the error of response frame f *)
SettledBy(p, f) ==
    IF f.error.present
    THEN p.state = "rejected" /\ p.error.text = f.error.message
    ELSE p.state = "resolved" /\ p.result = f.result

(* C1: whatever requests are pending on a connection and in whatever order  *)
(* the responses arrive, handling a response frame settles the pending      *)
(* request that was sent with the id the frame carries, with the frame's    *)
(* result or error, and changes the promise of no other caller.             *)
C1_ResponseSettlesOwnRequest ==
    [][\A c \in Conns : \A f \in ResponseFrames :
          Stdout(c, Line(f)) =>
             \A k \in DOMAIN calls[c] :
                IF calls[c][k].state = "pending" /\ calls[c][k].id = f.id
                THEN SettledBy(calls'[c][k], f)
                ELSE calls'[c][k] = calls[c][k]]_vars

(* C1 witness: two requests were pending and the response to the second     *)
(* arrived first: the second is resolved, the first still pending.          *)
C1_OutOfOrderResponse ==
    \E c \in Conns :
        /\ Len(calls[c]) >= 2
        /\ calls[c][1].state = "pending" /\ calls[c][1].id = 1
        /\ calls[c][2].state = "resolved" /\ calls[c][2].id = 2

(* C2: the 'exit' event rejects every pending request with the              *)
(* process-exited error and empties the pending table, and a response       *)
(* handled after the exit resolves no request.                              *)
C2_ExitFailsAllPending ==
    [][\A c \in Conns :
          /\ Exit(c) =>
                /\ DOMAIN pendingRequests'[c] = {}
                /\ \A k \in DOMAIN calls[c] :
                      calls[c][k].state = "pending" =>
                         /\ calls'[c][k].state = "rejected"
                         /\ calls'[c][k].error = ErrExited
          /\ \A f \in AgentFrames :
                (proc[c].status = "exited" /\ Stdout(c, Line(f))) =>
                   \A k \in DOMAIN calls[c] :
                      calls'[c][k].state = "resolved" => calls[c][k].state = "resolved"]_vars

(* C2 witness: the process exited while two requests were pending *)
C2_TwoFailedByExit ==
    \E c \in Conns :
        /\ proc[c].status = "exited"
        /\ Len(calls[c]) >= 2
        /\ \A k \in 1..2 : calls[c][k].state = "rejected" /\ calls[c][k].error = ErrExited
        /\ DOMAIN pendingRequests[c] = {}

C6_TerminateFailsPending ==
    \A c \in Conns : \A k \in DOMAIN calls[c] :
        calls[c][k].atTerminate =>
            /\ calls[c][k].error.text # "timeout"
            /\ (child[c] = "null" /\ proc[c].killed) => calls[c][k].state # "pending"


(* C3: two processMessage() calls that are inside getACP() for the same     *)
(* agentId at the same time share one connection, that is, one subprocess   *)
(* was spawned for them.                                                    *)
C3_OneSpawnPerAgent ==
    \A t, u \in Tasks :
        (/\ t # u
         /\ tasks[t].agentId = tasks[u].agentId
         /\ tasks[t].pc \in {"connect"} \cup (HostMethods \ {"session/prompt"})
         /\ tasks[u].pc \in {"connect"} \cup (HostMethods \ {"session/prompt"}))
        => tasks[t].conn = tasks[u].conn

(* The k-th request of connection c has its entry in the pending table *)
Entry(c, k) ==
    /\ k <= Len(calls[c])
    /\ calls[c][k].id \in DOMAIN pendingRequests[c]
    /\ pendingRequests[c][calls[c][k].id].call = k

(* C4: the entry of a registered request other than session/prompt is      *)
(* eventually removed; the entry of a session/prompt that has waited is    *)
(* eventually removed or its timeout is restarted by a frame of the agent. *)
C4_EntryRemovedOrRestarted ==
    \A c \in ClassConns : \A k \in 1..MaxCalls :
        /\ (Entry(c, k) /\ calls[c][k].method # "session/prompt") ~> ~Entry(c, k)
        /\ (Entry(c, k) /\ calls[c][k].still > 0)
              ~> (~Entry(c, k) \/ calls[c][k].still = 0)

(* C4 as stated: the entry of every registered request is eventually removed. *)
C4_EntryEventuallyRemoved ==
    \A c \in ClassConns : \A k \in 1..MaxCalls : Entry(c, k) ~> ~Entry(c, k)

(* C4 witness: one request's entry was removed by its timer, another's by *)
(* its response, and the table is empty.                                  *)
C4_RemovedByTimerAndResponse ==
    \E c \in ClassConns :
        /\ Len(calls[c]) = MaxCalls
        /\ \E k \in DOMAIN calls[c] : calls[c][k].error.text = "timeout"
        /\ \E k \in DOMAIN calls[c] : calls[c][k].state = "resolved"
        /\ pendingRequests[c] = <<>>

(* The complete (newline-terminated) lines of a stream of characters *)
CompleteLines(s) == SubSeq(Split(s), 1, Len(Split(s)) - 1)

Malformed(line) == ~IsBlank(line) /\ ~JSONParse(line).ok

RECURSIVE Docs(_)
Docs(lines) ==
    IF lines = <<>> THEN <<>>
    ELSE IF ~IsBlank(Head(lines)) /\ JSONParse(Head(lines)).ok
         THEN <<JSONParse(Head(lines)).msg>> \o Docs(Tail(lines))
         ELSE Docs(Tail(lines))

(* The documents of a whole stream: its complete lines, split on newlines, *)
(* that are not blank and parse                                            *)
WholeDocs(s) == Docs(CompleteLines(s))

(* C7: when a chunk is handled, every complete line that is a valid         *)
(* response to a request pending at that moment (the first such line for    *)
(* its id) settles that request, also when a malformed line precedes it in  *)
(* the same or an earlier chunk.                                            *)
C7_MalformedLineDropped ==
    [][\A c \in Conns :
          stream'[c] # stream[c] =>
             LET chunk == SubSeq(stream'[c], Len(stream[c]) + 1, Len(stream'[c]))
                 lines == CompleteLines(buffer[c] \o chunk)
                 all == CompleteLines(stream'[c])
                 before == Len(all) - Len(lines)
             IN  \A j \in 1..Len(lines) :
                    (/\ JSONParse(lines[j]).ok
                     /\ ~IsBlank(lines[j])
                     /\ JSONParse(lines[j]).msg.method = ""
                     /\ JSONParse(lines[j]).msg.id \in DOMAIN pendingRequests[c]
                     /\ \A i \in 1..(j - 1) :
                           JSONParse(lines[i]).ok =>
                              JSONParse(lines[i]).msg.id # JSONParse(lines[j]).msg.id
                     /\ \E i \in 1..(before + j - 1) : Malformed(all[i]))
                    => SettledBy(calls'[c][pendingRequests[c][JSONParse(lines[j]).msg.id].call],
                                 JSONParse(lines[j]).msg)]_vars

(* C7 witness: the stream "}\n" followed by the response to request 1: the  *)
(* malformed line was dropped and the request is resolved.                  *)
C7_ResolvedAfterMalformed ==
    \E c \in Conns :
        /\ stream[c] = <<Ch("}"), Ch("\n")>> \o Line(FirstResponse)
        /\ decoded[c] = <<FirstResponse>>
        /\ calls[c] # <<>>
        /\ calls[c][1].state = "resolved"

(* C8: however the stream is cut into chunks, the documents handed to       *)
(* handleMessage are those of the whole stream split on newlines, each      *)
(* once, the buffer is the trailing partial line, and it holds no newline.  *)
C8_FramingIndependentOfChunks ==
    \A c \in Conns :
        /\ decoded[c] = WholeDocs(stream[c])
        /\ buffer[c] = Split(stream[c])[Len(Split(stream[c]))]
        /\ \A i \in 1..Len(buffer[c]) : buffer[c][i].ch # "\n"

(* C8 witness: one document arrived torn across two chunks and was decoded  *)
(* exactly once.                                                            *)
C8_TornDocumentDecodedOnce ==
    \E c \in Conns :
        /\ torn[c]
        /\ stream[c] = Line(FirstResponse)
        /\ decoded[c] = <<FirstResponse>>

(* C9: handling a response frame whose id is not in the pending table       *)
(* changes neither the table, the timers, the callers' promises nor any     *)
(* other field of the connection, and writes nothing to the subprocess.     *)
C9_UnknownIdIgnored ==
    [][\A c \in Conns : \A f \in ResponseFrames :
          (f.id \notin DOMAIN pendingRequests[c] /\ Stdout(c, Line(f))) =>
             UNCHANGED <<pendingRequests, timers, calls, stdin, child, buffer,
                         nextRequestId, sessionId, onUpdate>>]_vars

(* C9 witness: a connected process with request 1 pending and id 2 never    *)
(* issued, where a response carrying id 2 can be, and has been, handled:    *)
(* the state is the one before the frame.                                   *)
C9_UnknownIdDeliverable ==
    \E c \in Conns :
        /\ proc[c].status = "running"
        /\ DOMAIN pendingRequests[c] = {1}
        /\ nextRequestId[c] = 2
        /\ ENABLED Stdout(c, Line(Response(2, "ok")))

(* C10: on a connection the i-th registered request gets id i, the counter  *)
(* is one past the last id given out, and no two requests that are pending  *)
(* together share an id.                                                    *)
C10_SequentialUniqueIds ==
    \A c \in Conns :
        LET registered(k) == {j \in 1..k : calls[c][j].id # NoId}
        IN  /\ nextRequestId[c] = Cardinality(registered(Len(calls[c]))) + 1
            /\ \A k \in DOMAIN calls[c] :
                  calls[c][k].id # NoId => calls[c][k].id = Cardinality(registered(k))
            /\ \A j, k \in DOMAIN calls[c] :
                  (/\ j # k
                   /\ calls[c][j].state = "pending"
                   /\ calls[c][k].state = "pending") => calls[c][j].id # calls[c][k].id

(* C10 witness: two requests pending together, with ids 1 and 2 *)
C10_TwoPendingTogether ==
    \E c \in Conns :
        /\ Len(calls[c]) >= 2
        /\ calls[c][1].state = "pending" /\ calls[c][2].state = "pending"
        /\ DOMAIN pendingRequests[c] = {1, 2}

(* C11: a request failed by the expiry of its timer has left the pending    *)
(* table, and its error names the request's method and a duration.          *)
C11_TimeoutNamesMethodAndDuration ==
    \A c \in Conns : \A k \in DOMAIN calls[c] :
        calls[c][k].error.text = "timeout" =>
            /\ calls[c][k].state = "rejected"
            /\ ~Entry(c, k)
            /\ calls[c][k].error.method = calls[c][k].method
            /\ calls[c][k].error.ms > 0

(* C12: the connection getACP() returned was Ready at that moment: its      *)
(* subprocess was alive and initialize, session/new and session/set_mode    *)
(* had each succeeded on it.                                                *)
C12_ReturnedConnectionReady ==
    \A t \in Tasks : tasks[t].returned # NoConn => tasks[t].ready

Earlier(c, k, m, states) ==
    \E j \in 1..(k - 1) : calls[c][j].method = m /\ calls[c][j].state \in states

(* C14: on a connection bootstrapped by getACP(), initialize is the first   *)
(* request; session/new follows a successful initialize, session/set_mode a *)
(* successful session/new, session/skill_inject a successful                *)
(* session/set_mode, and session/prompt a settled session/skill_inject.     *)
C14_BootstrapOrder ==
    \A c \in Conns : \A k \in DOMAIN calls[c] :
        LET m == calls[c][k].method
        IN  /\ k = 1 => m = "initialize"
            /\ m = "initialize" => k = 1
            /\ m = "session/new" => Earlier(c, k, "initialize", {"resolved"})
            /\ m = "session/set_mode" => Earlier(c, k, "session/new", {"resolved"})
            /\ m = "session/skill_inject" => Earlier(c, k, "session/set_mode", {"resolved"})
            /\ m = "session/prompt" =>
                  Earlier(c, k, "session/skill_inject", {"resolved", "rejected"})

(* C14 witness: the four bootstrap requests succeeded in order and the      *)
(* prompt has been sent.                                                    *)
C14_PromptAfterBootstrap ==
    \E c \in Conns :
        /\ Len(calls[c]) = 5
        /\ \A k \in 1..4 : calls[c][k].state = "resolved"
        /\ calls[c][5].method = "session/prompt"
        /\ Entry(c, 5)

(* A bootstrap request (initialize, session/new, session/set_mode) of      *)
(* connection c was rejected                                               *)
BootstrapFailed(c) ==
    \E k \in DOMAIN calls[c] :
        calls[c][k].method \in BootstrapMethods /\ calls[c][k].state = "rejected"

(* C15: a connection on which initialize, session/new or session/set_mode   *)
(* failed is not in the pool and was returned to no caller, and the         *)
(* getACP() that was bootstrapping it has failed.                           *)
C15_FailedBootstrapNotPooled ==
    \A c \in Conns :
        BootstrapFailed(c) =>
            /\ \A a \in AgentIds : acpPool[a] # c
            /\ \A t \in Tasks : tasks[t].returned # c
            /\ \A t \in Tasks : tasks[t].conn = c => tasks[t].pc = "error"

(* C15 witness: session/set_mode was rejected on the connection a failed    *)
(* task was bootstrapping.                                                  *)
C15_SetModeRejected ==
    \E c \in Conns, t \in Tasks :
        /\ tasks[t].conn = c
        /\ tasks[t].pc = "error"
        /\ \E k \in DOMAIN calls[c] :
              calls[c][k].method = "session/set_mode" /\ calls[c][k].state = "rejected"

(* C16: the step in which the awaited session/skill_inject request settles, *)
(* resolved or rejected, returns the connection from getACP(); when the     *)
(* prompt is then pending the connection is in the pool.                    *)
C16_InjectFailureSwallowed ==
    [][\A t \in Tasks :
          (tasks[t].pc = "session/skill_inject" /\ tasks'[t].pc # "session/skill_inject")
          => /\ tasks'[t].returned = tasks[t].conn
             /\ tasks'[t].pc \in {"session/prompt", "error"}
             /\ tasks'[t].pc = "session/prompt" =>
                   acpPool'[tasks[t].agentId] = tasks[t].conn]_vars

(* C16 witness: session/skill_inject was answered with an error and the     *)
(* connection is pooled with the prompt pending on it.                      *)
C16_PooledAfterInjectError ==
    \E c \in Conns, t \in Tasks :
        /\ tasks[t].returned = c
        /\ tasks[t].pc = "session/prompt"
        /\ acpPool[tasks[t].agentId] = c
        /\ \E k \in DOMAIN calls[c] :
              /\ calls[c][k].method = "session/skill_inject"
              /\ calls[c][k].state = "rejected"
              /\ calls[c][k].error.text = "failed"

FsReplyTo(f, r) ==
    /\ r.method = ""
    /\ r.id = f.id
    /\ IF f.method = "fs/read_text_file"
       THEN IF f.params \in ReadableFiles
            THEN ~r.error.present /\ r.result = "content"
            ELSE r.error.present /\ r.error.code # 0 /\ r.error.message # ""
       ELSE IF f.params \in WritableFiles
            THEN ~r.error.present /\ r.result = "null"
            ELSE r.error.present /\ r.error.code # 0 /\ r.error.message # ""

C20_NotAliveAfterTerminate ==
    \A c \in Conns :
        (proc[c].killed /\ child[c] = "null") => proc[c].status # "running"

(* The fields of connection c the class owns *)
Fields(c) ==
    <<child[c], buffer[c], nextRequestId[c], pendingRequests[c], sessionId[c],
      onUpdate[c], timers[c], calls[c], proc[c], stdin[c]>>

(* C21: when getACP finds an entry that is not running, the entry is left   *)
(* as it is and the caller gets a connection constructed in that step, with *)
(* an empty pending table, an empty buffer and ID counter 1; the pool keeps *)
(* one value per agentId.                                                   *)
C21_UnhealthyEntryReplaced ==
    [][\A t \in Tasks : \A a \in AgentIds :
          (/\ Submit(t, a)
           /\ acpPool[a] # NoConn
           /\ ~IsRunning(World(acpPool[a])))
          => /\ tasks'[t].conn # acpPool[a]
             /\ proc[tasks'[t].conn].status = "none"
             /\ pendingRequests'[tasks'[t].conn] = <<>>
             /\ buffer'[tasks'[t].conn] = <<>>
             /\ nextRequestId'[tasks'[t].conn] = 1
             /\ Fields(acpPool[a])' = Fields(acpPool[a])
             /\ acpPool' = acpPool]_vars

(* C21 witness: the pooled connection of an agentId is dead and a second    *)
(* connection is being bootstrapped for the same agentId.                   *)
C21_ReplacementUnderWay ==
    \E t \in Tasks : \E a \in AgentIds :
        /\ acpPool[a] # NoConn
        /\ ~IsRunning(World(acpPool[a]))
        /\ nextRequestId[acpPool[a]] > 1
        /\ tasks[t].agentId = a
        /\ tasks[t].pc = "connect"
        /\ tasks[t].conn # acpPool[a]
        /\ nextRequestId[tasks[t].conn] = 1

(* C22: when the SIGTERM handler has cleared the pool, terminate() had      *)
(* returned on every connection the pool held, and the pool is empty from   *)
(* then on.                                                                 *)
C22_DrainedOnShutdown ==
    shutdown.pc = "cleared" =>
        /\ shutdown.dropped = {}
        /\ \A a \in AgentIds : acpPool[a] = NoConn

(* The state of connection c that C23 names *)
Owned(c) ==
    <<buffer[c], pendingRequests[c], nextRequestId[c], sessionId[c], onUpdate[c]>>

(* The agentIds connection c is held for, by the pool or by a task *)
AgentsOf(c) ==
    {a \in AgentIds : acpPool[a] = c} \cup {tasks[t].agentId : t \in {u \in Tasks : tasks[u].conn = c}}

(* C23: a request sent, a frame received, a timer expiry or a process exit  *)
(* on one connection leaves buffer, pending table, ID counter, session ID   *)
(* and update callback of every other connection unchanged, and no          *)
(* connection is held for two agentIds.                                     *)
C23_ConnectionsIndependent ==
    [][/\ \A c \in Conns : \A d \in Conns \ {c} :
             (\/ Reply(c)
              \/ PoolExit(c)
              \/ \E h \in DOMAIN timers[c] : PoolExpire(c, h)
              \/ \E t \in Tasks : tasks[t].conn = c /\ Connected(t)
              \/ \E t \in Tasks : \E a \in AgentIds : Submit(t, a) /\ tasks'[t].conn = c)
             => Owned(d)' = Owned(d)
       /\ \A c \in Conns : Cardinality(AgentsOf(c)') <= 1]_vars

(* C23 witness: the connections of two agentIds both have a request         *)
(* pending, with their own counters and tables.                             *)
C23_TwoAgentsBusy ==
    \E c, d \in Conns :
        /\ AgentsOf(c) = {"claude-code"}
        /\ AgentsOf(d) = {"opencode"}
        /\ DOMAIN pendingRequests[c] = {3}
        /\ DOMAIN pendingRequests[d] = {1}
        /\ nextRequestId[c] = 4
        /\ nextRequestId[d] = 2

(* C24: the step that decodes a session/update notification with params     *)
(* invokes the registered callback once with those params (twice in order   *)
(* for two notifications in one chunk) and writes nothing to the            *)
(* subprocess.                                                              *)
C24_UpdateInvokesCallbackOnce ==
    [][\A c \in ClassConns : \A f, g \in UpdateFrames :
          (f.params # "" /\ g.params # "" /\ onUpdate[c] # 0) =>
              /\ Incoming(c, Line(f)) =>
                    /\ delivered'[c] =
                          Append(delivered[c], [to |-> onUpdate[c], params |-> f.params])
                    /\ stdin'[c] = stdin[c]
              /\ Incoming(c, Line(f) \o Line(g)) =>
                    /\ delivered'[c] =
                          delivered[c] \o <<[to |-> onUpdate[c], params |-> f.params],
                                            [to |-> onUpdate[c], params |-> g.params]>>
                    /\ stdin'[c] = stdin[c]]_vars

(* C24 witness: the callback of a task got the params of two notifications  *)
(* and nothing but the prompt was written.                                  *)
C24_TwoUpdatesDelivered ==
    \E c \in ClassConns : \E t \in Tasks :
        /\ delivered[c] = <<[to |-> t, params |-> "chunk"], [to |-> t, params |-> "plan"]>>
        /\ Len(stdin[c]) = 1
        /\ stdin[c][1].method = "session/prompt"

C26_RemoteErrorCarriesCodeAndMessage ==
    [][\A c \in Conns : \A f \in ResponseFrames :
          (f.error.present /\ Stdout(c, Line(f))) =>
              \A k \in DOMAIN calls[c] :
                  (calls[c][k].state = "pending" /\ calls[c][k].id = f.id) =>
                      /\ calls'[c][k].state = "rejected"
                      /\ calls'[c][k].error.text = f.error.message
                      /\ calls'[c][k].error.code = f.error.code]_vars

(* C27: on a connection whose binary could not be spawned no request was    *)
(* sent, and once connect() is over the processMessage() that spawned it    *)
(* has failed.                                                              *)
C27_NoInitializeAfterFailedSpawn ==
    \A c \in Conns :
        proc[c].status = "failed" =>
            /\ calls[c] = <<>>
            /\ \A t \in Tasks :
                  tasks[t].conn = c => tasks[t].pc \in {"connect", "error"}

(* C28: when sendRequest writes a request to a stdin pipe that is broken    *)
(* (nothing reads its other end), the caller is rejected in that step and   *)
(* the pending table holds no entry for the request.                        *)
C28_BrokenPipeFailsSend ==
    [][\A t \in Tasks :
          (Connected(t) /\ ~Writable(World(tasks[t].conn))) =>
              /\ calls'[tasks[t].conn][Len(calls'[tasks[t].conn])].state = "rejected"
              /\ pendingRequests'[tasks[t].conn] = <<>>]_vars

(* C29: the values written to the status of a session record are pending,   *)
(* then processing, then at most one of completed and error, and nothing    *)
(* after that; the last one agrees with where its processMessage() is.      *)
C29_SessionStatusOrder ==
    \A t \in Tasks :
        /\ tasks[t].status \in {<<>>, <<"pending", "processing">>,
                                <<"pending", "processing", "completed">>,
                                <<"pending", "processing", "error">>}
        /\ tasks[t].pc = "idle" <=> tasks[t].status = <<>>
        /\ tasks[t].pc = "completed" <=> tasks[t].status = <<"pending", "processing", "completed">>
        /\ tasks[t].pc = "error" <=> tasks[t].status = <<"pending", "processing", "error">>

(* C29 witness: one session ended completed and another one ended error.    *)
C29_CompletedAndError ==
    \E t, u \in Tasks :
        /\ tasks[t].status = <<"pending", "processing", "completed">>
        /\ tasks[u].status = <<"pending", "processing", "error">>

(* C30: resolve or reject is called at most once for every request, and     *)
(* exactly once for a request that is settled.                              *)
C30_SettledAtMostOnce ==
    \A c \in Conns : \A k \in DOMAIN calls[c] :
        /\ calls[c][k].settled <= 1
        /\ calls[c][k].settled = 0 <=> calls[c][k].state = "pending"

(* C30 witness: terminate() was called and the process has exited, after    *)
(* one prompt was rejected by its restarted timer; the other prompt was     *)
(* rejected by the exit; each was settled once.                             *)
C30_TimeoutThenExit ==
    \E c \in Conns :
        /\ Len(calls[c]) = 2
        /\ proc[c].killed /\ proc[c].status = "exited"
        /\ calls[c][1].error = ErrPromptTimeout /\ calls[c][1].settled = 1
        /\ calls[c][2].error = ErrExited /\ calls[c][2].settled = 1

(* C31: a processMessage() that awaits its session/prompt on a connection   *)
(* has its own callback in the onUpdate slot of that connection, so that    *)
(* the updates of its prompt reach it, also when another prompt on the same *)
(* connection starts or completes.                                          *)
C31_CallbackOfPendingPrompt ==
    \A t \in Tasks :
        tasks[t].pc = "session/prompt" => onUpdate[tasks[t].conn] = t

(* C32: the step in which a prompt fails on connection X leaves in the pool *)
(* every entry that holds another connection whose subprocess is running.   *)
C32_EvictionRemovesOnlyFailed ==
    [][\A t \in Tasks :
          (tasks[t].pc = "session/prompt" /\ tasks'[t].pc = "error") =>
              \A a \in AgentIds :
                  (/\ acpPool[a] # NoConn
                   /\ acpPool[a] # tasks[t].conn
                   /\ proc'[acpPool[a]].status = "running"
                   /\ child'[acpPool[a]] # "null")
                  => acpPool'[a] = acpPool[a]]_vars

(* C33: every subprocess that is running belongs to a connection that is in *)
(* the pool or that a getACP() is still bootstrapping.                      *)
C33_NoOrphanedSubprocess ==
    \A c \in Conns :
        proc[c].status = "running" =>
            \/ \E a \in AgentIds : acpPool[a] = c
            \/ \E t \in Tasks :
                  /\ tasks[t].conn = c
                  /\ tasks[t].pc \in {"connect", "session/skill_inject"} \cup BootstrapMethods

(* C34: the connection getACP(agentId, cwd) has returned to a task has a    *)
(* session that was created by a session/new request with the cwd of that   *)
(* task, also when the connection was taken from the pool.                  *)
C34_SessionCreatedWithCwd ==
    \A t \in Tasks :
        tasks[t].returned # NoConn =>
            \E k \in DOMAIN calls[tasks[t].returned] :
                LET p == calls[tasks[t].returned][k]
                IN  /\ p.method = "session/new"
                    /\ p.state = "resolved"
                    /\ p.params = tasks[t].cwd

(* C35: a sendRequest() called while isRunning() is false (no child, or the *)
(* child was sent the kill signal by terminate()) returns a rejected        *)
(* promise, writes nothing to stdin and registers no pending entry.         *)
C35_NotRunningRejects ==
    [][\A c \in ClassConns :
          (~IsRunning(World(c)) /\ Request(c, "session/prompt")) =>
              /\ calls'[c][Len(calls'[c])].state = "rejected"
              /\ stdin'[c] = stdin[c]
              /\ pendingRequests'[c] = pendingRequests[c]]_vars

(* The pending requests of connection c: id, method and promise *)
PendingTable(c) ==
    [id \in DOMAIN pendingRequests[c] |->
       <<pendingRequests[c][id].method, pendingRequests[c][id].call>>]

(* The states of the promises of connection c *)
Settlements(c) == [k \in DOMAIN calls[c] |-> calls[c][k].state]

(* C36: the step that decodes a frame with a non-empty method, whatever its *)
(* id, and replies to it removes no entry from the pending table, adds      *)
(* none and settles no request.                                             *)
C36_CallNeverSettlesRequest ==
    [][\A c \in ClassConns : \A f \in CollideFrames :
          (Truthy(f.method) /\ Collide(c, f)) =>
              /\ PendingTable(c)' = PendingTable(c)
              /\ Settlements(c)' = Settlements(c)]_vars

(* C36 as stated: the same for every frame that has a method field.         *)
C36_MethodFieldNeverSettles ==
    [][\A c \in ClassConns : \A f \in CollideFrames :
          Collide(c, f) =>
              /\ PendingTable(c)' = PendingTable(c)
              /\ Settlements(c)' = Settlements(c)]_vars

(* C36 witness: a permission request with the id of the pending request 1   *)
(* was decoded and answered under that id, and request 1 is still pending.  *)
C36_AnsweredUnderPendingId ==
    \E c \in ClassConns :
        /\ 1 \in DOMAIN pendingRequests[c]
        /\ \E j \in DOMAIN decoded[c] :
              decoded[c][j] = Call("session/request_permission", 1, "/file")
        /\ \E j \in DOMAIN stdin[c] : stdin[c][j] = Response(1, "allow")

(* The frames that restart the timeout of a prompt *)
RestartFrames ==
    {f \in AgentFrames : f.method \in {"session/update", "session/request_permission"}}

(* The armed timer of the pending request id of connection c *)
TimerOf(c, id) == timers[c][pendingRequests[c][id].timeoutId]

(* C37: the step that decodes a session/update or a                         *)
(* session/request_permission frame gives every pending session/prompt a    *)
(* timer of the full period and leaves the entry and the timer (handle,     *)
(* remaining time, error) of every other pending request as they were.      *)
C37_OnlyPromptTimersRestart ==
    [][\A c \in ClassConns : \A f \in RestartFrames :
          Stdout(c, Line(f)) =>
              /\ DOMAIN pendingRequests'[c] = DOMAIN pendingRequests[c]
              /\ \A id \in DOMAIN pendingRequests[c] :
                    IF pendingRequests[c][id].method = "session/prompt"
                    THEN /\ TimerOf(c, id)'.rem = ResetTimeout
                         /\ TimerOf(c, id)'.id = id
                    ELSE /\ pendingRequests'[c][id] = pendingRequests[c][id]
                         /\ TimerOf(c, id)' = TimerOf(c, id)]_vars

(* C37 witness: an initialize request that is due and a prompt whose timer  *)
(* was restarted at the full period are pending together.                   *)
C37_RestartedBesideDue ==
    \E c \in ClassConns : \E i, j \in DOMAIN pendingRequests[c] :
        /\ pendingRequests[c][i].method = "initialize"
        /\ TimerOf(c, i).rem = 0
        /\ pendingRequests[c][j].method = "session/prompt"
        /\ TimerOf(c, j).rem = ResetTimeout
        /\ TimerOf(c, j).error = ErrPromptTimeout

(* processMessage() of task t has returned *)
Finished(t) == tasks[t].pc \in {"completed", "error"}

(* The terminal values among the status writes of the session of task t *)
TerminalWrites(t) ==
    {i \in DOMAIN tasks[t].status : tasks[t].status[i] \in {"completed", "error"}}

(* The promise task t awaits *)
Awaited(t) == calls[tasks[t].conn][tasks[t].call]

(* C38: a processMessage() records no assistant message and no terminal     *)
(* status before it returns and exactly one of each when it has returned;   *)
(* its bootstrap always comes to an end, and while it awaits its prompt it  *)
(* eventually returns or the agent restarts the timeout of the prompt.      *)
C38_FinishesOrRestarted ==
    /\ [](\A t \in Tasks :
            IF Finished(t)
            THEN tasks[t].messages = 1 /\ Cardinality(TerminalWrites(t)) = 1
            ELSE tasks[t].messages = 0 /\ TerminalWrites(t) = {})
    /\ \A t \in Tasks :
          /\ (tasks[t].pc \in {"connect", "session/skill_inject"} \cup BootstrapMethods)
                ~> (tasks[t].pc = "session/prompt" \/ Finished(t))
          /\ (tasks[t].pc = "session/prompt" /\ Awaited(t).still > 0)
                ~> (tasks[t].pc # "session/prompt" \/ Awaited(t).still = 0)

(* C38 as stated: every processMessage() that was invoked eventually        *)
(* returns with one assistant message and one terminal status recorded.     *)
C38_AlwaysFinishes ==
    \A t \in Tasks :
        (tasks[t].pc # "idle")
            ~> (Finished(t) /\ tasks[t].messages = 1 /\ Cardinality(TerminalWrites(t)) = 1)

(* C38 witness: one processMessage() has completed and another has failed   *)
(* by the timeout of its prompt, each with one message and one terminal     *)
(* status.                                                                  *)
C38_CompletedAndTimedOut ==
    \E t, u \in Tasks :
        /\ tasks[t].pc = "completed"
        /\ tasks[u].pc = "error"
        /\ Awaited(u).method = "session/prompt"
        /\ Awaited(u).error.text = "timeout"
        /\ tasks[t].messages = 1 /\ tasks[u].messages = 1
        /\ Cardinality(TerminalWrites(t)) = 1 /\ Cardinality(TerminalWrites(u)) = 1

(* C39: a sendRequest() on a connection whose child is null returns a       *)
(* promise rejected with the not-connected error and leaves the ID counter, *)
(* the pending table, the timers and stdin as they were.                    *)
C39_NotConnectedChangesNothing ==
    [][\A c \in ClassConns : \A method \in RequestMethods :
          (child[c] = "null" /\ Request(c, method)) =>
              /\ calls'[c][Len(calls'[c])].state = "rejected"
              /\ calls'[c][Len(calls'[c])].error = ErrNotConnected
              /\ nextRequestId'[c] = nextRequestId[c]
              /\ pendingRequests'[c] = pendingRequests[c]
              /\ timers'[c] = timers[c]
              /\ stdin'[c] = stdin[c]]_vars

(* C39 witness: after a request that took id 1 and a process exit, a second *)
(* request was rejected as not connected and the next id is still 2.        *)
C39_RejectedAfterExit ==
    \E c \in ClassConns :
        /\ Len(calls[c]) = 2
        /\ calls[c][1].id = 1
        /\ calls[c][2].error = ErrNotConnected
        /\ calls[c][2].id = NoId
        /\ nextRequestId[c] = 2
        /\ pendingRequests[c] = <<>>

(* The armed request timers of connection c *)
RequestTimers(c) == {h \in DOMAIN timers[c] : timers[c][h].kind = "request"}

(* C40: in every state each entry of the pending table has one armed timer, *)
(* the one its timeoutId names, and every armed request timer belongs to an *)
(* entry of the table.                                                      *)
C40_OneTimerPerEntry ==
    \A c \in Conns :
        /\ \A id \in DOMAIN pendingRequests[c] :
              /\ pendingRequests[c][id].timeoutId \in RequestTimers(c)
              /\ {h \in RequestTimers(c) : timers[c][h].id = id}
                     = {pendingRequests[c][id].timeoutId}
        /\ \A h \in RequestTimers(c) : timers[c][h].id \in DOMAIN pendingRequests[c]

(* C40 witness: the first request was removed by its timer; the second, a   *)
(* prompt whose timer was restarted, is pending with the only armed timer.  *)
C40_RestartedAfterExpiry ==
    \E c \in ClassConns :
        /\ Len(calls[c]) = 2
        /\ calls[c][1].error.text = "timeout"
        /\ DOMAIN pendingRequests[c] = {2}
        /\ TimerOf(c, 2).error = ErrPromptTimeout
        /\ Cardinality(RequestTimers(c)) = 1

============================================================================
